---- MODULE Spec2Model ----
(***************************************************************************)
(* A model of bitbucket-cli: the command-line run (main.py), credential    *)
(* resolution (auth.py), the paginated fetch with its query builder and    *)
(* client-side filter (api_client.py), and the flattening of a pull        *)
(* request into a CSV row (models.py, csv_writer.py).                      *)
(*                                                                         *)
(* Python's None is the empty tuple and a present value v is <<v>>, so an  *)
(* optional value is always a tuple and "" differs from None.              *)
(***************************************************************************)
EXTENDS Integers, Sequences, FiniteSets, TLC

VARIABLES
    pc,                  \* where the run is
    state,               \* fetch_all_pull_requests: parameter state
    created_after,       \* parameter created_after
    created_before,      \* parameter created_before
    destination_branch,  \* parameter destination_branch
    created_date_query,  \* result of _build_created_date_query
    query_params,        \* dict query_params, as a set of <<key, value>>
    next_url,            \* loop variable next_url
    all_pull_requests,   \* the accumulator
    requests,            \* every GET issued so far: url, params, auth
    responses,           \* every response the server gave so far
    returned,            \* the list fetch_all_pull_requests returned
    error,               \* the exception that left the current call
    credentials,         \* main: resolved BitbucketCredentials
    args,                \* main: the parsed filters and output path
    argv_destination,    \* the destination branch given on the command line
    exit_code,           \* process exit status
    stdout,              \* what was written to standard output
    stderr,              \* what was written to standard error
    csv_file,            \* content of the output file
    arg_email,           \* resolve_credentials: parameter cli_email
    arg_api_token,       \* resolve_credentials: parameter cli_api_token
    os_environ,          \* os.environ, as a set of <<name, value>>
    resolution           \* what resolve_credentials returned or raised

vars == <<pc, state, created_after, created_before, destination_branch,
          created_date_query, query_params, next_url, all_pull_requests,
          requests, responses, returned, error, credentials, args,
          argv_destination, exit_code, stdout, stderr, csv_file, arg_email,
          arg_api_token, os_environ, resolution>>

credVars == <<arg_email, arg_api_token, os_environ, resolution>>

fetchVars == <<state, created_after, created_before, destination_branch,
               created_date_query, query_params, next_url, all_pull_requests,
               requests, responses, returned>>

mainVars == <<credentials, args, argv_destination, exit_code, stdout, stderr,
              csv_file>>

None == <<>>
Some(v) == <<v>>
Val(o) == o[1]
Option(S) == {None} \cup {Some(v) : v \in S}

NoError == [type |-> "", status_code |-> 0, response_body |-> ""]

(***************************************************************************)
(* Bounds of the simulated server and of the inputs.                       *)
(***************************************************************************)
MaxPages == 2
MaxRecords == 3

(***************************************************************************)
(* datetime.date: toordinal, fromordinal, date + timedelta, isoformat.     *)
(***************************************************************************)
Date(y, m, d) == [year |-> y, month |-> m, day |-> d]

DateMax == Date(9999, 12, 31)

is_leap(y) == y % 4 = 0 /\ (y % 100 # 0 \/ y % 400 = 0)

days_in_month(y, m) ==
    IF m = 2 THEN (IF is_leap(y) THEN 29 ELSE 28)
    ELSE IF m \in {4, 6, 9, 11} THEN 30 ELSE 31

days_before_year(y) ==
    (y - 1) * 365 + (y - 1) \div 4 - (y - 1) \div 100 + (y - 1) \div 400

RECURSIVE days_before_month(_, _)
days_before_month(y, m) ==
    IF m = 1 THEN 0
    ELSE days_before_month(y, m - 1) + days_in_month(y, m - 1)

toordinal(dt) ==
    days_before_year(dt.year) + days_before_month(dt.year, dt.month) + dt.day

fromordinal(ordinal) ==
    LET n0 == ordinal - 1
        n400 == n0 \div 146097
        r400 == n0 % 146097
        n100 == r400 \div 36524
        r100 == r400 % 36524
        n4 == r100 \div 1461
        r4 == r100 % 1461
        n1 == r4 \div 365
        n == r4 % 365
        year == n400 * 400 + 1 + n100 * 100 + n4 * 4 + n1
        leapyear == n1 = 3 /\ (n4 # 24 \/ n100 = 3)
        guess == (n + 50) \div 32
        before(m) == days_before_month(IF leapyear THEN 4 ELSE 1, m)
        month == IF before(guess) > n THEN guess - 1 ELSE guess
    IN  IF n1 = 4 \/ n100 = 4
        THEN Date(year - 1, 12, 31)
        ELSE Date(year, month, n - before(month) + 1)

\* date + timedelta(days=n); None stands for OverflowError
date_add_days(dt, n) ==
    LET o == toordinal(dt) + n
    IN  IF 0 < o /\ o <= toordinal(DateMax) THEN Some(fromordinal(o)) ELSE None

Pad2(n) == IF n < 10 THEN "0" \o ToString(n) ELSE ToString(n)

Pad4(n) ==
    IF n < 10 THEN "000" \o ToString(n)
    ELSE IF n < 100 THEN "00" \o ToString(n)
    ELSE IF n < 1000 THEN "0" \o ToString(n)
    ELSE ToString(n)

isoformat(dt) == Pad4(dt.year) \o "-" \o Pad2(dt.month) \o "-" \o Pad2(dt.day)

\* the day after dt in the calendar
NextDay(dt) ==
    IF dt.day < days_in_month(dt.year, dt.month)
    THEN Date(dt.year, dt.month, dt.day + 1)
    ELSE IF dt.month < 12 THEN Date(dt.year, dt.month + 1, 1)
    ELSE Date(dt.year + 1, 1, 1)

RECURSIVE Join(_, _)
Join(parts, sep) ==
    IF parts = <<>> THEN ""
    ELSE IF Len(parts) = 1 THEN parts[1]
    ELSE parts[1] \o sep \o Join(Tail(parts), sep)

(***************************************************************************)
(* api_client._build_created_date_query                                    *)
(***************************************************************************)
build_created_date_query(after, before) ==
    LET lower == IF after # None
                 THEN <<"created_on >= " \o isoformat(Val(after))>>
                 ELSE <<>>
        day_after_created_before ==
            IF before # None THEN date_add_days(Val(before), 1) ELSE None
        overflow == before # None /\ day_after_created_before = None
        upper == IF before # None /\ ~overflow
                 THEN <<"created_on < "
                        \o isoformat(Val(day_after_created_before))>>
                 ELSE <<>>
        query_clauses == lower \o upper
    IN  [exc |-> IF overflow THEN "OverflowError" ELSE "",
         value |-> IF overflow \/ query_clauses = <<>>
                   THEN None
                   ELSE Some(Join(query_clauses, " AND "))]

(***************************************************************************)
(* The date query on its own: inputs drawn from DateSample.                *)
(***************************************************************************)
DateSample ==
    {Date(1, 1, 1), Date(999, 12, 31), Date(1900, 2, 28), Date(2000, 2, 29),
     Date(2023, 1, 1), Date(2023, 1, 31), Date(2023, 2, 28),
     Date(2023, 4, 30), Date(2023, 12, 31), Date(2024, 2, 28),
     Date(2024, 2, 29), Date(9999, 12, 30), DateMax}

IdleFetch ==
    /\ created_date_query = None
    /\ query_params = {}
    /\ next_url = None
    /\ all_pull_requests = <<>>
    /\ requests = <<>>
    /\ responses = <<>>
    /\ returned = None
    /\ error = NoError

NoResolution == [exc |-> "", message |-> "", value |-> None]

IdleCredentials ==
    /\ arg_email = None
    /\ arg_api_token = None
    /\ os_environ = {}
    /\ resolution = NoResolution

IdleMain ==
    /\ args = None
    /\ argv_destination = None
    /\ exit_code = None
    /\ stdout = <<>>
    /\ stderr = <<>>
    /\ csv_file = None

InitDate ==
    /\ pc = "date_query"
    /\ created_after \in Option(DateSample)
    /\ created_before \in Option(DateSample)
    /\ state = None
    /\ destination_branch = None
    /\ credentials = None
    /\ IdleFetch
    /\ IdleMain
    /\ IdleCredentials

DateQueryCall ==
    /\ pc = "date_query"
    /\ UNCHANGED credVars
    /\ LET r == build_created_date_query(created_after, created_before)
       IN  /\ created_date_query' = r.value
           /\ error' = [NoError EXCEPT !.type = r.exc]
           /\ pc' = IF r.exc = "" THEN "date_returned" ELSE "date_raised"
    /\ UNCHANGED <<state, created_after, created_before, destination_branch,
                   query_params, next_url, all_pull_requests, requests,
                   responses, returned>>
    /\ UNCHANGED mainVars

NextDate == DateQueryCall

SpecDate == InitDate /\ [][NextDate]_vars

\* C5: the date query holds 'created_on >= L' exactly when a lower bound L
\* is given and 'created_on < U+1' exactly when an upper bound U is given,
\* U+1 being the day after U, for every pair of optional bounds.
C5_DateQueryClauses ==
    pc \in {"date_returned", "date_raised"} =>
        LET lower == IF created_after # None
                     THEN "created_on >= " \o isoformat(Val(created_after))
                     ELSE ""
            upper == IF created_before # None
                     THEN "created_on < "
                          \o isoformat(NextDay(Val(created_before)))
                     ELSE ""
            both == IF lower # "" /\ upper # ""
                    THEN lower \o " AND " \o upper
                    ELSE lower \o upper
        IN  /\ error = NoError
            /\ created_date_query = IF both = "" THEN None ELSE Some(both)

\* the same for every upper bound before date.max, where date + timedelta
\* does not overflow
DateQueryClausesBelowMax ==
    created_before # Some(DateMax) => C5_DateQueryClauses

\* the example of the documentation
DateQueryExample ==
    build_created_date_query(Some(Date(2023, 1, 1)), Some(Date(2023, 1, 31))).value
        = Some("created_on >= 2023-01-01 AND created_on < 2023-02-01")

(***************************************************************************)
(* models.py: the pull request resource and the paginated response.        *)
(***************************************************************************)
PullRequestState == {"OPEN", "MERGED", "DECLINED", "SUPERSEDED"}

\* PullRequestState(str, Enum): the value of a member is its upper-case name
state_value(member) == CHOOSE v \in PullRequestState : v = member

BranchReference(name) == [name |-> name]

\* created_on is a datetime; the model keeps its calendar day
PullRequestResource(st, branch, created_on) ==
    [state |-> st, destination |-> [branch |-> branch],
     created_on |-> created_on]

PaginatedPullRequestResponse(values, next) ==
    [kind |-> "page", text |-> "", values |-> values, next |-> next]

\* a body that is not JSON, and a JSON body that is not a page
TextBody(text) == [kind |-> "text", text |-> text, values |-> <<>>, next |-> None]
OtherJsonBody == [kind |-> "json", text |-> "{}", values |-> <<>>, next |-> None]

(***************************************************************************)
(* api_client.py                                                           *)
(***************************************************************************)
BITBUCKET_API_BASE_URL == "https://api.bitbucket.org/2.0"

build_initial_url(workspace, repo_slug) ==
    BITBUCKET_API_BASE_URL \o "/repositories/" \o workspace \o "/"
        \o repo_slug \o "/pullrequests"

Workspace == "myteam"
RepoSlug == "my-repo"
initial_url == build_initial_url(Workspace, RepoSlug)

build_query_params_empty_q(st, date_query, dest) ==
    LET query_clauses ==
            (IF date_query # None THEN <<Val(date_query)>> ELSE <<>>)
            \o (IF dest # None
                THEN <<"destination.branch.name = \"" \o Val(dest) \o "\"">>
                ELSE <<>>)
    IN  (IF st # None THEN {<<"state", Val(st)>>} ELSE {})
        \cup {<<"q", Join(query_clauses, " AND ")>>}

\* lines 146-162: the dict query_params as a set of <<key, value>>
build_query_params(st, date_query, dest) ==
    LET state_param == IF st # None
                       THEN {<<"state", state_value(Val(st))>>}
                       ELSE {}
        query_clauses ==
            (IF date_query # None THEN <<Val(date_query)>> ELSE <<>>)
            \o (IF dest # None
                THEN <<"destination.branch.name = \"" \o Val(dest) \o "\"">>
                ELSE <<>>)
    IN  state_param
        \cup (IF query_clauses # <<>>
              THEN {<<"q", Join(query_clauses, " AND ")>>}
              ELSE {})

\* lines 174-177: the parameters attached to the GET of url
request_params(url, params) ==
    IF url = initial_url /\ params # {} THEN params ELSE {}

is_success_below_400(status_code) == 200 <= status_code /\ status_code < 400

\* httpx.Response.is_success
is_success(status_code) == 200 <= status_code /\ status_code <= 299

extend_in_front(accumulated, values) == values \o accumulated

\* line 189: all_pull_requests.extend(paginated_response.values)
extend(accumulated, values) == accumulated \o values

filter_state_skipped(pull_requests, st) == pull_requests

\* lines 196-201
filter_state(pull_requests, st) ==
    IF st # None
    THEN SelectSeq(pull_requests, LAMBDA pr : pr.state = Val(st))
    ELSE pull_requests

filter_destination_keeps_absent(pull_requests, dest) ==
    IF dest # None
    THEN SelectSeq(pull_requests,
                   LAMBDA pr : \/ pr.destination.branch = None
                               \/ Val(pr.destination.branch).name = Val(dest))
    ELSE pull_requests

\* lines 203-209
filter_destination(pull_requests, dest) ==
    IF dest # None
    THEN SelectSeq(pull_requests,
                   LAMBDA pr : /\ pr.destination.branch # None
                               /\ Val(pr.destination.branch).name = Val(dest))
    ELSE pull_requests

RECURSIVE FirstOccurrences(_)
FirstOccurrences(q) ==
    IF q = <<>> THEN <<>>
    ELSE LET front == FirstOccurrences(SubSeq(q, 1, Len(q) - 1))
         IN  IF \E i \in 1..(Len(q) - 1) : q[i] = q[Len(q)]
             THEN front
             ELSE Append(front, q[Len(q)])

\* a filter that also drops the records created outside the date bounds
client_side_filter_in_date_range(pull_requests, st, dest) ==
    SelectSeq(filter_destination(filter_state(pull_requests, st), dest),
              LAMBDA pr :
                  /\ created_after # None =>
                         toordinal(pr.created_on) >= toordinal(Val(created_after))
                  /\ created_before # None =>
                         toordinal(pr.created_on) <= toordinal(Val(created_before)))

client_side_filter_unique(pull_requests, st, dest) ==
    FirstOccurrences(filter_destination(filter_state(pull_requests, st), dest))

\* lines 192-211
client_side_filter(pull_requests, st, dest) ==
    filter_destination(filter_state(pull_requests, st), dest)

(***************************************************************************)
(* models.PullRequestCsvRow.from_api_resource, for the columns State and   *)
(* Destination Branch (the other columns copy fields the model leaves out) *)
(***************************************************************************)
from_api_resource(resource) ==
    [state |-> state_value(resource.state),
     destination_branch |->
         IF resource.destination.branch # None
         THEN Val(resource.destination.branch).name
         ELSE ""]

(***************************************************************************)
(* The simulated server: what one GET may bring back.                      *)
(***************************************************************************)
RECURSIVE SeqsUpTo(_, _)
SeqsUpTo(S, n) ==
    IF n = 0 THEN {<<>>}
    ELSE SeqsUpTo(S, n - 1)
         \cup {Append(q, x) : q \in {r \in SeqsUpTo(S, n - 1) : Len(r) = n - 1},
                              x \in S}

StateSample == {"OPEN", "MERGED"}
BranchSample == {"main"}

\* the records of a repository: both states, a destination branch that is
\* main, another branch, or absent, and a creation day inside January 2023,
\* before it, or after it
RecordSample ==
    {PullRequestResource("OPEN", Some(BranchReference("main")),
                         Date(2023, 1, 15)),
     PullRequestResource("MERGED", Some(BranchReference("main")),
                         Date(2022, 12, 31)),
     PullRequestResource("OPEN", Some(BranchReference("dev")),
                         Date(2023, 2, 1)),
     PullRequestResource("MERGED", None, Date(2023, 1, 15))}

\* what the command-line runs are served
MainRecordSample ==
    {PullRequestResource("OPEN", Some(BranchReference("main")),
                         Date(2023, 1, 15)),
     PullRequestResource("MERGED", None, Date(2023, 2, 1))}

\* cursors: some other URL, or the initial URL itself
Cursors == {initial_url, initial_url \o "?page=2"}

Response(status_code, body) == [status_code |-> status_code, body |-> body]

\* room: the records the repository still holds; more: whether a further
\* page may follow
ServerResponses(records, room, more) ==
    {Response(200, PaginatedPullRequestResponse(values, next)) :
        values \in SeqsUpTo(records, room),
        next \in IF more THEN Option(Cursors) ELSE {None}}
    \cup {Response(200, TextBody("<html>")), Response(200, OtherJsonBody)}
    \cup {Response(status_code, body) :
            status_code \in {302, 404, 500},
            body \in {TextBody("Not Found"), OtherJsonBody}}

(***************************************************************************)
(* fetch_all_pull_requests                                                 *)
(***************************************************************************)
BitbucketApiError(status_code, response_body) ==
    [type |-> "BitbucketApiError", status_code |-> status_code,
     response_body |-> response_body]

Raised(type) == [NoError EXCEPT !.type = type]

\* lines 137-168: from the call to the first GET
EnterFetch(st, after, before, dest) ==
    LET date_query == build_created_date_query(after, before)
    IN  /\ state' = st
        /\ created_after' = after
        /\ created_before' = before
        /\ destination_branch' = dest
        /\ all_pull_requests' = <<>>
        /\ UNCHANGED <<requests, responses, returned>>
        /\ IF date_query.exc # ""
           THEN /\ pc' = "raised"
                /\ error' = Raised(date_query.exc)
                /\ UNCHANGED <<created_date_query, query_params, next_url>>
           ELSE /\ pc' = "fetching"
                /\ error' = NoError
                /\ created_date_query' = date_query.value
                /\ query_params' =
                       build_query_params(st, date_query.value, dest)
                /\ next_url' = Some(initial_url)

FetchCall ==
    /\ pc = "fetch_call"
    /\ UNCHANGED credVars
    /\ EnterFetch(state, created_after, created_before, destination_branch)
    /\ UNCHANGED mainVars

\* lines 171-190, one iteration of the loop; when the page has no next
\* cursor, lines 196-211 follow in the same step
GetPage(records) ==
    /\ pc = "fetching"
    /\ UNCHANGED credVars
    /\ next_url # None
    /\ requests' = Append(requests,
                          [url |-> Val(next_url),
                           params |-> request_params(Val(next_url), query_params),
                           auth |-> Val(credentials)])
    /\ \/ \* httpx.RequestError: no response arrives
          /\ pc' = "raised"
          /\ error' = Raised("RequestError")
          /\ UNCHANGED <<responses, all_pull_requests, next_url, returned>>
       \/ \E response \in ServerResponses(records,
                                          MaxRecords - Len(all_pull_requests),
                                          Len(responses) + 1 < MaxPages) :
            /\ responses' = Append(responses, response)
            /\ IF ~is_success(response.status_code)
               THEN /\ pc' = "raised"
                    /\ error' = BitbucketApiError(response.status_code,
                                                  response.body.text)
                    /\ UNCHANGED <<all_pull_requests, next_url, returned>>
               ELSE IF response.body.kind # "page"
               THEN /\ pc' = "raised"
                    /\ error' = Raised(IF response.body.kind = "text"
                                       THEN "JSONDecodeError"
                                       ELSE "ValidationError")
                    /\ UNCHANGED <<all_pull_requests, next_url, returned>>
               ELSE /\ error' = NoError
                    /\ next_url' = response.body.next
                    /\ IF response.body.next # None
                       THEN /\ pc' = "fetching"
                            /\ all_pull_requests' =
                                   extend(all_pull_requests, response.body.values)
                            /\ UNCHANGED returned
                       ELSE /\ pc' = "returned"
                            /\ all_pull_requests' =
                                   client_side_filter(
                                       extend(all_pull_requests,
                                              response.body.values),
                                       state, destination_branch)
                            /\ returned' = Some(all_pull_requests')
    /\ UNCHANGED <<state, created_after, created_before, destination_branch,
                   created_date_query, query_params>>
    /\ UNCHANGED mainVars

\* the caller of a direct call
DirectCredentials == [email |-> "dev@example.com", api_token |-> "token"]

Init ==
    /\ pc = "fetch_call"
    /\ state \in Option(StateSample)
    /\ created_after \in Option({Date(2023, 1, 1)})
    /\ created_before \in Option({Date(2023, 1, 31), DateMax})
    /\ destination_branch \in Option(BranchSample)
    /\ credentials = Some(DirectCredentials)
    /\ IdleFetch
    /\ IdleMain
    /\ IdleCredentials

Next ==
    \/ FetchCall
    \/ GetPage(RecordSample)

Spec == Init /\ [][Next]_vars

(***************************************************************************)
(* auth.resolve_credentials                                                *)
(***************************************************************************)
BITBUCKET_EMAIL_ENV_VAR == "BITBUCKET_EMAIL"
BITBUCKET_API_TOKEN_ENV_VAR == "BITBUCKET_API_TOKEN"

\* a set of <<key, value>>: the value of key, or None
Lookup(pairs, key) ==
    IF \E kv \in pairs : kv[1] = key
    THEN Some((CHOOSE kv \in pairs : kv[1] = key)[2])
    ELSE None

\* Python's truth value of an optional string
Truthy(o) == o # None /\ Val(o) # ""

Or_second_first(a, b) == IF Truthy(b) THEN b ELSE a

\* a or b
Or(a, b) == IF Truthy(a) THEN a ELSE b

CredentialMessage(missing_fields) ==
    "Missing Bitbucket " \o Join(missing_fields, " and ")
        \o ". Provide credentials via CLI flags (--email, --api-token) "
        \o "or environment variables (" \o BITBUCKET_EMAIL_ENV_VAR \o ", "
        \o BITBUCKET_API_TOKEN_ENV_VAR \o ")."

resolve_credentials_unless_none(cli_email, cli_api_token, environ) ==
    LET email == Or(cli_email, Lookup(environ, BITBUCKET_EMAIL_ENV_VAR))
        api_token == Or(cli_api_token,
                        Lookup(environ, BITBUCKET_API_TOKEN_ENV_VAR))
        missing_fields ==
            (IF email = None THEN <<"email">> ELSE <<>>)
            \o (IF api_token = None THEN <<"API token">> ELSE <<>>)
    IN  IF missing_fields # <<>>
        THEN [exc |-> "CredentialError",
              message |-> CredentialMessage(missing_fields), value |-> None]
        ELSE [exc |-> "", message |-> "",
              value |-> Some([email |-> Val(email),
                              api_token |-> Val(api_token)])]

\* lines 46-94
resolve_credentials(cli_email, cli_api_token, environ) ==
    LET email == Or(cli_email, Lookup(environ, BITBUCKET_EMAIL_ENV_VAR))
        api_token == Or(cli_api_token,
                        Lookup(environ, BITBUCKET_API_TOKEN_ENV_VAR))
        missing_fields ==
            (IF ~Truthy(email) THEN <<"email">> ELSE <<>>)
            \o (IF ~Truthy(api_token) THEN <<"API token">> ELSE <<>>)
    IN  IF missing_fields # <<>>
        THEN [exc |-> "CredentialError",
              message |-> CredentialMessage(missing_fields), value |-> None]
        ELSE [exc |-> "", message |-> "",
              value |-> Some([email |-> Val(email),
                              api_token |-> Val(api_token)])]

(***************************************************************************)
(* main.py: the argument parser.  A command line is a set of               *)
(* <<option, value>>; the two positional arguments are always given.       *)
(***************************************************************************)
\* main._build_argument_parser: the options the parser knows
ParserOptions ==
    {"state", "created_after", "created_before", "output", "email",
     "api_token"}

OptionName(option) ==
    CASE option = "created_after" -> "--created-after"
      [] option = "created_before" -> "--created-before"
      [] option = "api_token" -> "--api-token"
      [] option = "destination_branch" -> "--destination-branch"
      [] OTHER -> "--" \o option

\* parser.parse_args(): the namespace, or argparse's usage error (exit 2)
parse_args(argv) ==
    IF \E kv \in argv : kv[1] \notin ParserOptions
    THEN LET kv == CHOOSE x \in argv : x[1] \notin ParserOptions
         IN  [exc |-> "SystemExit",
              message |-> "bitbucket-cli: error: unrecognized arguments: "
                          \o OptionName(kv[1]) \o " " \o kv[2],
              value |-> None]
    ELSE IF /\ Lookup(argv, "state") # None
            /\ Val(Lookup(argv, "state")) \notin PullRequestState
    THEN [exc |-> "SystemExit",
          message |-> "bitbucket-cli: error: argument --state: invalid choice: '"
                      \o Val(Lookup(argv, "state")) \o "'",
          value |-> None]
    ELSE [exc |-> "", message |-> "",
          value |-> Some([state |-> Lookup(argv, "state"),
                          created_after |-> Lookup(argv, "created_after"),
                          created_before |-> Lookup(argv, "created_before"),
                          output |-> Lookup(argv, "output"),
                          email |-> Lookup(argv, "email"),
                          api_token |-> Lookup(argv, "api_token")])]

\* the year, month and day a text of the shape YYYY-MM-DD spells, None for a
\* text of another shape
IsoFields(text) ==
    CASE text = "2023-01-01" -> Some(Date(2023, 1, 1))
      [] text = "2023-01-31" -> Some(Date(2023, 1, 31))
      [] text = "2023-02-30" -> Some(Date(2023, 2, 30))
      [] text = "9999-12-31" -> Some(Date(9999, 12, 31))
      [] OTHER -> None

\* date.fromisoformat; None stands for ValueError
fromisoformat(text) ==
    LET fields == IsoFields(text)
    IN  IF /\ fields # None
           /\ Val(fields).year \in 1..9999
           /\ Val(fields).month \in 1..12
           /\ Val(fields).day \in 1..days_in_month(Val(fields).year,
                                                   Val(fields).month)
        THEN fields
        ELSE None

(***************************************************************************)
(* csv_writer.py, for the columns State and Destination Branch.            *)
(***************************************************************************)
CSV_COLUMN_HEADERS == <<"State", "Destination Branch">>

\* _write_rows_to_stream: the header, then one line for each row
write_rows_to_stream(rows) ==
    <<CSV_COLUMN_HEADERS>>
        \o [i \in 1..Len(rows) |-> <<rows[i].state, rows[i].destination_branch>>]

(***************************************************************************)
(* main                                                                    *)
(***************************************************************************)
Exit(code, message) ==
    /\ pc' = "exited"
    /\ exit_code' = Some(code)
    /\ stderr' = Append(stderr, message)

\* an exception no handler catches: the interpreter prints the traceback
\* to standard error and exits with status 1
Traceback(type) == "Traceback (most recent call last): " \o type

StateArgs == {"OPEN", "MERGED", "open"}
CreatedAfterArgs == {"2023-01-01", "yesterday"}
CreatedBeforeArgs == {"2023-01-31", "2023-02-30", "9999-12-31"}

Opt(option, values) == {{}} \cup {{<<option, v>>} : v \in values}

\* the command lines tried
ArgvSample ==
    {a \cup b \cup c \cup d \cup e \cup f \cup g :
        a \in Opt("state", StateArgs),
        b \in Opt("created_after", CreatedAfterArgs),
        c \in Opt("created_before", CreatedBeforeArgs),
        d \in Opt("output", {"prs.csv"}),
        e \in Opt("email", {"", "cli@example.com"}),
        f \in Opt("api_token", {"", "cli-token"}),
        g \in Opt("destination_branch", {"main"})}

\* the environments tried
EnvironSample ==
    {a \cup b :
        a \in Opt(BITBUCKET_EMAIL_ENV_VAR, {"", "env@example.com"}),
        b \in Opt(BITBUCKET_API_TOKEN_ENV_VAR, {"", "env-token"})}

\* lines 102-113: parse the command line, resolve the credentials.  email
\* and api_token are not read again and are dropped from args.
MainBegin ==
    /\ pc = "main"
    /\ UNCHANGED credVars
    /\ \E argv \in ArgvSample, environ \in EnvironSample :
         LET parsed == parse_args(argv)
             resolved == resolve_credentials(Val(parsed.value).email,
                                             Val(parsed.value).api_token,
                                             environ)
         IN  /\ argv_destination' = Lookup(argv, "destination_branch")
             /\ IF parsed.exc # ""
                THEN /\ Exit(2, parsed.message)
                     /\ error' = Raised(parsed.exc)
                     /\ UNCHANGED <<args, credentials>>
                ELSE IF resolved.exc # ""
                THEN /\ Exit(1, "Error: " \o resolved.message)
                     /\ error' = Raised(resolved.exc)
                     /\ UNCHANGED <<args, credentials>>
                ELSE /\ pc' = "credentials_resolved"
                     /\ credentials' = resolved.value
                     /\ args' = Some([state |-> Val(parsed.value).state,
                                      created_after |->
                                          Val(parsed.value).created_after,
                                      created_before |->
                                          Val(parsed.value).created_before,
                                      output |-> Val(parsed.value).output])
                     /\ UNCHANGED <<error, exit_code, stderr>>
    /\ UNCHANGED <<stdout, csv_file>>
    /\ UNCHANGED fetchVars

ParsedDate(text) == IF text = None THEN None ELSE fromisoformat(Val(text))

InvalidDate(option, text) ==
    "Error: Invalid date format for " \o option \o ": '" \o text
        \o "'. Expected YYYY-MM-DD."

\* lines 115-154: parse the filters and call fetch_all_pull_requests, which
\* main calls without destination_branch
MainCall ==
    /\ pc = "credentials_resolved"
    /\ UNCHANGED credVars
    /\ LET state_filter == Val(args).state
           created_after_date == ParsedDate(Val(args).created_after)
           created_before_date == ParsedDate(Val(args).created_before)
       IN  IF Val(args).created_after # None /\ created_after_date = None
           THEN /\ Exit(1, InvalidDate("--created-after",
                                       Val(Val(args).created_after)))
                /\ error' = Raised("ValueError")
                /\ UNCHANGED fetchVars
           ELSE IF Val(args).created_before # None /\ created_before_date = None
           THEN /\ Exit(1, InvalidDate("--created-before",
                                       Val(Val(args).created_before)))
                /\ error' = Raised("ValueError")
                /\ UNCHANGED fetchVars
           ELSE /\ EnterFetch(state_filter, created_after_date,
                              created_before_date, None)
                /\ UNCHANGED <<exit_code, stderr>>
    /\ UNCHANGED <<credentials, args, argv_destination, stdout, csv_file>>

FetchErrorMessage(err) ==
    IF err.type = "BitbucketApiError"
    THEN "Error: Bitbucket API error (HTTP " \o ToString(err.status_code)
         \o "): " \o err.response_body
    ELSE IF err.type = "RequestError"
    THEN "Error: Network request failed: " \o err.type
    ELSE Traceback(err.type)

MainFetchRaised_on_stdout ==
    /\ pc = "raised"
    /\ UNCHANGED credVars
    /\ pc' = "exited"
    /\ exit_code' = Some(1)
    /\ stdout' = Append(stdout, <<FetchErrorMessage(error)>>)
    /\ UNCHANGED <<credentials, args, argv_destination, stderr, csv_file,
                   error>>
    /\ UNCHANGED fetchVars

\* lines 155-163: the two handlers; any other exception is not caught
MainFetchRaised ==
    /\ pc = "raised"
    /\ UNCHANGED credVars
    /\ Exit(1, FetchErrorMessage(error))
    /\ UNCHANGED <<credentials, args, argv_destination, stdout, csv_file,
                   error>>
    /\ UNCHANGED fetchVars

\* lines 175-187
Summary(count, st, after, before) ==
    LET filter_parts ==
            (IF st # None THEN <<"state=" \o state_value(Val(st))>> ELSE <<>>)
            \o (IF after # None
                THEN <<"created>=" \o isoformat(Val(after))>> ELSE <<>>)
            \o (IF before # None
                THEN <<"created<=" \o isoformat(Val(before))>> ELSE <<>>)
    IN  "Exported " \o ToString(count) \o " pull request(s)"
        \o (IF filter_parts # <<>>
            THEN " (" \o Join(filter_parts, ", ") \o ")" ELSE "")
        \o "."

\* lines 165-187: rows, CSV, summary.  Opening the output file may fail
\* with OSError, which nothing catches.
MainExport ==
    /\ pc = "returned"
    /\ UNCHANGED credVars
    /\ LET csv_rows == [i \in 1..Len(Val(returned)) |->
                            from_api_resource(Val(returned)[i])]
           done == Exit(0, Summary(Len(csv_rows), state, created_after,
                                   created_before))
       IN  IF Val(args).output = None
           THEN /\ stdout' = stdout \o write_rows_to_stream(csv_rows)
                /\ done
                /\ UNCHANGED <<csv_file, error>>
           ELSE \/ /\ csv_file' = Some(write_rows_to_stream(csv_rows))
                   /\ done
                   /\ UNCHANGED <<stdout, error>>
                \/ /\ Exit(1, Traceback("OSError"))
                   /\ error' = Raised("OSError")
                   /\ UNCHANGED <<stdout, csv_file>>
    /\ UNCHANGED <<credentials, args, argv_destination>>
    /\ UNCHANGED fetchVars

InitMain ==
    /\ pc = "main"
    /\ state = None
    /\ created_after = None
    /\ created_before = None
    /\ destination_branch = None
    /\ credentials = None
    /\ IdleFetch
    /\ IdleMain
    /\ IdleCredentials

NextMain ==
    \/ MainBegin
    \/ MainCall
    \/ GetPage(MainRecordSample)
    \/ MainFetchRaised
    \/ MainExport

SpecMain == InitMain /\ [][NextMain]_vars

(***************************************************************************)
(* resolve_credentials on its own: the two arguments and the environment   *)
(* are each absent, empty or set.                                          *)
(***************************************************************************)
InitCredentials ==
    /\ pc = "resolve_credentials"
    /\ arg_email \in Option({"", "cli@example.com"})
    /\ arg_api_token \in Option({"", "cli-token"})
    /\ os_environ \in EnvironSample
    /\ resolution = NoResolution
    /\ state = None
    /\ created_after = None
    /\ created_before = None
    /\ destination_branch = None
    /\ credentials = None
    /\ IdleFetch
    /\ IdleMain

\* auth.py lines 46-94
ResolveCredentialsCall ==
    /\ pc = "resolve_credentials"
    /\ resolution' = resolve_credentials(arg_email, arg_api_token, os_environ)
    /\ pc' = IF resolution'.exc = ""
             THEN "credentials_returned"
             ELSE "credentials_raised"
    /\ credentials' = resolution'.value
    /\ error' = Raised(resolution'.exc)
    /\ UNCHANGED <<arg_email, arg_api_token, os_environ>>
    /\ UNCHANGED <<state, created_after, created_before, destination_branch,
                   created_date_query, query_params, next_url,
                   all_pull_requests, requests, responses, returned>>
    /\ UNCHANGED <<args, argv_destination, exit_code, stdout, stderr, csv_file>>

NextCredentials == ResolveCredentialsCall

SpecCredentials == InitCredentials /\ [][NextCredentials]_vars

NonEmpty(o) == o \notin {None, Some("")}

\* the value of a field: the argument when it is a non-empty string, the
\* environment variable otherwise
Effective(argument, variable) ==
    IF NonEmpty(argument)
    THEN argument
    ELSE IF \E kv \in os_environ : kv[1] = variable
    THEN Some((CHOOSE kv \in os_environ : kv[1] = variable)[2])
    ELSE None

\* C11: each of email and API token is the command-line value when that is
\* a non-empty string and the environment's value otherwise; credentials
\* are returned exactly when both are non-empty strings, and otherwise
\* CredentialError names exactly the missing fields.
C11_CredentialPrecedence ==
    pc \in {"credentials_returned", "credentials_raised"} =>
        LET email == Effective(arg_email, "BITBUCKET_EMAIL")
            api_token == Effective(arg_api_token, "BITBUCKET_API_TOKEN")
            missing == IF ~NonEmpty(email) /\ ~NonEmpty(api_token)
                       THEN "email and API token"
                       ELSE IF ~NonEmpty(email) THEN "email" ELSE "API token"
        IN  IF NonEmpty(email) /\ NonEmpty(api_token)
            THEN /\ pc = "credentials_returned"
                 /\ resolution.exc = ""
                 /\ resolution.value = Some([email |-> Val(email),
                                             api_token |-> Val(api_token)])
                 /\ credentials = resolution.value
            ELSE /\ pc = "credentials_raised"
                 /\ resolution.exc = "CredentialError"
                 /\ resolution.value = None
                 /\ resolution.message =
                        "Missing Bitbucket " \o missing
                        \o ". Provide credentials via CLI flags (--email, "
                        \o "--api-token) or environment variables "
                        \o "(BITBUCKET_EMAIL, BITBUCKET_API_TOKEN)."

\* the email comes from the environment because the argument is empty, the
\* API token from the command line although the environment has one
C11_Witness ==
    /\ pc = "credentials_returned"
    /\ arg_email = Some("")
    /\ arg_api_token = Some("cli-token")
    /\ <<"BITBUCKET_API_TOKEN", "env-token">> \in os_environ
    /\ credentials = Some([email |-> "env@example.com",
                           api_token |-> "cli-token"])

(***************************************************************************)
(* Properties of the fetch.                                                *)
(***************************************************************************)
\* the records of every page served so far, in the order served
RECURSIVE ServedRecords(_)
ServedRecords(served) ==
    IF served = <<>> THEN <<>>
    ELSE served[1].body.values \o ServedRecords(Tail(served))

Range(q) == {q[i] : i \in 1..Len(q)}

HasKey(params, key) == \E kv \in params : kv[1] = key

LowerClause(after) ==
    IF after # None THEN "created_on >= " \o isoformat(Val(after)) ELSE ""

UpperClause(before) ==
    IF before # None
    THEN "created_on < " \o isoformat(NextDay(Val(before)))
    ELSE ""

BranchClause(dest) ==
    IF dest # None
    THEN "destination.branch.name = \"" \o Val(dest) \o "\""
    ELSE ""

And(a, b) == IF a # "" /\ b # "" THEN a \o " AND " \o b ELSE a \o b

\* C1: every record of the returned list has the requested state, when a
\* state filter is given, and a present destination branch of the requested
\* name, when a destination-branch filter is given, whatever the pages held.
C1_ReturnedSatisfiesFilters ==
    returned # None =>
        \A pr \in Range(Val(returned)) :
            /\ state # None => pr.state = Val(state)
            /\ destination_branch # None =>
                   /\ pr.destination.branch # None
                   /\ Val(pr.destination.branch).name = Val(destination_branch)

\* both filters active, page 2 held a record of another state and a record
\* of another or no branch, and something was returned
C1_Witness ==
    /\ returned # None
    /\ Val(returned) # <<>>
    /\ state # None
    /\ destination_branch # None
    /\ Len(responses) = 2
    /\ \E pr \in Range(responses[2].body.values) : pr.state # Val(state)
    /\ \E pr \in Range(responses[2].body.values) :
           pr.destination.branch # Some(BranchReference(Val(destination_branch)))

\* C2: when every response is a page and the chain ends in a page without a
\* next cursor, the call returns on that page having issued one request per
\* page, and without filters it returns the pages' records concatenated in
\* page order and in-page order.
C2_ConcatenationInOrder ==
    /\ (/\ responses # <<>>
        /\ \A i \in 1..Len(responses) :
               /\ responses[i].status_code = 200
               /\ responses[i].body.kind = "page"
        /\ responses[Len(responses)].body.next = None)
       => /\ pc = "returned"
          /\ returned # None
          /\ Len(requests) = Len(responses)
          /\ \A i \in 1..(Len(responses) - 1) : responses[i].body.next # None
          /\ (state = None /\ destination_branch = None)
                 => Val(returned) = ServedRecords(responses)
    /\ pc = "fetching" => next_url # None

\* two non-empty pages, three records, the same record on both pages
C2_Witness ==
    /\ pc = "returned"
    /\ state = None
    /\ destination_branch = None
    /\ Len(responses) = 2
    /\ Len(Val(returned)) = 3
    /\ responses[1].body.values # <<>>
    /\ \E pr \in Range(responses[1].body.values) :
           pr \in Range(responses[2].body.values)
    /\ Cardinality(Range(Val(returned))) = 2

\* C3: the query parameters go with the first request only; every later
\* request goes to the cursor of the response before it, with no parameters.
C3_ParamsOnFirstRequestOnly ==
    \A i \in 1..Len(requests) :
        IF i = 1
        THEN requests[i].url = initial_url /\ requests[i].params = query_params
        ELSE /\ requests[i].url = Val(responses[i - 1].body.next)
             /\ requests[i].params = {}

\* what does hold: a later request carries parameters only when its cursor
\* is the initial URL
C3_ParamsUnlessCursorIsInitialUrl ==
    \A i \in 2..Len(requests) :
        /\ requests[i].url = Val(responses[i - 1].body.next)
        /\ requests[i].url # initial_url => requests[i].params = {}

\* C4: a response with a non-success status ends the call with a
\* BitbucketApiError of that status and body: it is the last response, its
\* request is the last request, and no list is returned.
C4_ApiErrorAborts ==
    \A k \in 1..Len(responses) :
        responses[k].status_code \notin 200..299 =>
            /\ k = Len(responses)
            /\ Len(requests) = k
            /\ pc = "raised"
            /\ error.type = "BitbucketApiError"
            /\ error.status_code = responses[k].status_code
            /\ error.response_body = responses[k].body.text
            /\ returned = None

\* page 1 brought records and a cursor, page 2 failed
C4_Witness ==
    /\ pc = "raised"
    /\ error.type = "BitbucketApiError"
    /\ error.status_code = 302
    /\ Len(responses) = 2
    /\ Len(requests) = 2
    /\ responses[1].body.values # <<>>
    /\ returned = None

\* C6: the first request carries q exactly when a date bound or a
\* destination branch is given, never an empty q; q is made of the date and
\* branch clauses alone, and a state filter is the separate parameter state,
\* holding the state's upper-case name.
C6_CompoundQueryParameter ==
    requests # <<>> =>
        LET params == requests[1].params
            q == And(And(LowerClause(created_after),
                         UpperClause(created_before)),
                     BranchClause(destination_branch))
        IN  /\ HasKey(params, "q") <=>
                   \/ created_after # None
                   \/ created_before # None
                   \/ destination_branch # None
            /\ <<"q", "">> \notin params
            /\ HasKey(params, "q") => params \cap ({"q"} \X {q}) # {}
            /\ HasKey(params, "state") <=> state # None
            /\ state # None => <<"state", Val(state)>> \in params
            /\ state # None =>
                   Val(state) \in {"OPEN", "MERGED", "DECLINED", "SUPERSEDED"}
            /\ Cardinality(params) = Cardinality({kv[1] : kv \in params})
            /\ \A kv \in params : kv[1] \in {"state", "q"}

\* a state filter alone: the first request carries state and no q
C6_Witness ==
    /\ requests # <<>>
    /\ state = Some("OPEN")
    /\ created_after = None
    /\ created_before = None
    /\ destination_branch = None
    /\ requests[1].params = {<<"state", "OPEN">>}

AbsentBranch(pr) == pr.destination.branch = None

\* C7: with a destination-branch filter no returned record lacks its
\* destination branch; without one, every served record that lacks it and
\* passes the state filter is returned, and its row has the empty string in
\* the column Destination Branch.
C7_AbsentDestinationBranch ==
    returned # None =>
        IF destination_branch # None
        THEN \A pr \in Range(Val(returned)) : ~AbsentBranch(pr)
        ELSE /\ SelectSeq(Val(returned), AbsentBranch)
                  = SelectSeq(ServedRecords(responses),
                              LAMBDA pr : /\ AbsentBranch(pr)
                                          /\ state # None => pr.state = Val(state))
             /\ \A pr \in Range(Val(returned)) :
                    AbsentBranch(pr) => from_api_resource(pr).destination_branch = ""

\* no destination-branch filter, a state filter, and a returned record
\* without destination branch
C7_Witness ==
    /\ returned # None
    /\ destination_branch = None
    /\ state # None
    /\ \E pr \in Range(Val(returned)) : AbsentBranch(pr)
    /\ Len(ServedRecords(responses)) > Len(Val(returned))

\* whether a record passes the state and destination-branch predicates
Passes(pr) ==
    /\ state # None => pr.state = Val(state)
    /\ destination_branch # None =>
           pr.destination.branch = Some(BranchReference(Val(destination_branch)))

\* C12: the returned list is the served records, in the order served, with
\* exactly those left out that fail the state or the destination-branch
\* predicate: nothing else is dropped, added, repeated or moved.
C12_ReturnedIsFilteredSubsequence ==
    returned # None =>
        /\ Val(returned) = SelectSeq(ServedRecords(responses), Passes)
        /\ all_pull_requests = Val(returned)

\* page 1 = [OPEN, MERGED] with a cursor, page 2 = [OPEN] without one,
\* state = OPEN: the two OPEN records, in their order
C12_Witness ==
    /\ returned # None
    /\ state = Some("OPEN")
    /\ destination_branch = None
    /\ Len(responses) = 2
    /\ Len(responses[1].body.values) = 2
    /\ responses[1].body.values[1].state = "OPEN"
    /\ responses[1].body.values[2].state = "MERGED"
    /\ responses[1].body.next # None
    /\ Len(responses[2].body.values) = 1
    /\ responses[2].body.values[1].state = "OPEN"
    /\ responses[2].body.values[1] # responses[1].body.values[1]
    /\ Val(returned) = <<responses[1].body.values[1],
                         responses[2].body.values[1]>>

\* whether a record was created on a day outside the requested date range
OutsideDateRange(pr) ==
    \/ /\ created_after # None
       /\ toordinal(pr.created_on) < toordinal(Val(created_after))
    \/ /\ created_before # None
       /\ toordinal(pr.created_on) > toordinal(Val(created_before))

PassesOutsideDateRange(pr) == Passes(pr) /\ OutsideDateRange(pr)

Last(q) == q[Len(q)]

\* the lines of CSV written after the header, to either destination
WrittenRows ==
    (IF stdout # <<>> THEN Tail(stdout) ELSE <<>>)
    \o (IF csv_file # None THEN Tail(Val(csv_file)) ELSE <<>>)

\* C8: a destination branch given on the command line reaches the fetch as
\* its destination-branch filter, and every row written names that branch.
C8_DestinationBranchFromCli ==
    (pc = "exited" /\ argv_destination # None) =>
        /\ destination_branch = argv_destination
        /\ \A line \in Range(WrittenRows) : line[2] = Val(argv_destination)

\* what the code does: the parser knows no such option and main passes no
\* destination_branch, so a command-line run never filters by branch
MainNeverFiltersByBranch ==
    /\ destination_branch = None
    /\ argv_destination # None => requests = <<>> /\ exit_code = Some(2)

C10_NoRequestBeforeCredentials ==
    /\ requests # <<>> =>
          /\ credentials # None
          /\ Val(credentials).email # ""
          /\ Val(credentials).api_token # ""
          /\ \A i \in 1..Len(requests) : requests[i].auth = Val(credentials)
    /\ error.type = "CredentialError" =>
          /\ pc = "exited"
          /\ exit_code = Some(1)
          /\ credentials = None
          /\ requests = <<>>
          /\ responses = <<>>

\* the run that lacks both the email and the API token
C10_Witness ==
    /\ pc = "exited"
    /\ error.type = "CredentialError"
    /\ stderr = <<"Error: " \o CredentialMessage(<<"email", "API token">>)>>
    /\ requests = <<>>

====
